---------------------------- MODULE Spec2Model ----------------------------
(***************************************************************************)
(* Bike-share acquisition pipeline: the resumable downloader               *)
(* (_download_with_resume), the archive extractor (unzip_ridership_files), *)
(* the quarterly-to-monthly splitter (_split_quarterly_to_monthly), the    *)
(* date parser (_extract_year_month) and the station feed merge            *)
(* (download_station_data).                                                *)
(***************************************************************************)
EXTENDS Integers, Sequences, FiniteSets, TLC

\* ------------------------------------------------------------------ bounds
\* longest destination file present before a download starts
MaxInit == 2
\* longest "small" response body / expected size
MaxBody == 2
\* largest retry budget a direct caller passes
MaxRetries == 2
\* a size large enough for 95% of it to differ from all of it
BigSize == 20

\* ------------------------------------------------------------- file values
\* dest.exists() is false
NoFile == <<"absent">>
\* expected_size is None (HEAD failed, or content-length missing or 0)
None == 0 - 1
\* no Range header in the request
NoRange == 0 - 1

\* a byte already on disk is either a byte the server would also send ("s")
\* or some other byte ("c"); the server's bytes are "s"
Bytes == {"c", "s"}

Body(n) == [i \in 1..n |-> "s"]

InitialFiles == {NoFile} \cup UNION {[1..n -> Bytes] : n \in 0..MaxInit}

BodyLens == (0..MaxBody) \cup {BigSize - 1, BigSize}

ExpectedSizes == {None} \cup (1..MaxBody) \cup {BigSize}

Size(f) == IF f = NoFile THEN 0 ELSE Len(f)

VARIABLES
    dest,           \* the file at the destination path (NoFile or its bytes)
    dest0,          \* the file at the destination path when the download was called
    expected_size,  \* result of the HEAD probe
    max_retries,
    attempt,        \* loop variable of the retry loop
    headers,        \* Range start of the last GET issued (NoRange: none)
    mode,           \* mode of the last dest.open
    truncated,      \* some attempt has opened an existing file in "wb" mode
    gets,           \* how many times requests.get was called
    dl_pc,          \* "idle", "loop", "done"
    dl_ret,         \* value returned
    \* _split_quarterly_to_monthly
    year_dir,        \* the year's output directory
    year_dir0,       \* the directory when the split was called
    quarter_files,   \* the paths handed to the split
    year_int,
    monthly_buckets, \* the buckets the split filled
    sp_pc,           \* "idle", "call", "done"
    sp_ret,          \* the count returned
    \* unzip_ridership_files
    zip_files,       \* the archives of RAW_DIR in sorted order: year, members
    raw,             \* the bytes of each archive file of RAW_DIR
    meta,            \* the documents of META_DIR (NoMetaDir: no such directory)
    interim,         \* INTERIM_DIR: the year directories and their files
    uz_i,            \* position of the loop over zip_files
    uz_pc,           \* "idle", "loop", "done"
    last,            \* what the last iteration of the loop did
    \* _extract_year_month
    dp_value,        \* the field value handed to the parser
    dp_year,         \* expected_year
    dp_parsed,       \* result of _parse_year_month_any
    dp_result,       \* result of _extract_year_month
    dp_pc,           \* "idle", "call", "done"
    \* download_station_data
    feeds_ok,        \* both GBFS feeds could be fetched
    info_feed,       \* the stations of the station_information payload
    status_feed,     \* the stations of the station_status payload
    info_stations,   \* the deduplicated info rows
    status_stations, \* the deduplicated status rows
    combined_rows,
    combined_csv,    \* station_details.csv: whether it exists, its rows
    st_pc            \* "idle", "call", "done"

dlvars == <<dest, dest0, expected_size, max_retries, attempt, headers, mode,
            truncated, gets, dl_pc, dl_ret>>

spvars == <<year_dir, year_dir0, quarter_files, year_int, monthly_buckets,
            sp_pc, sp_ret>>

uzvars == <<zip_files, raw, meta, interim, uz_i, uz_pc, last>>

dpvars == <<dp_value, dp_year, dp_parsed, dp_result, dp_pc>>

stvars == <<feeds_ok, info_feed, status_feed, info_stations, status_stations,
            combined_rows, combined_csv, st_pc>>

vars == <<dlvars, spvars, uzvars, dpvars, stvars>>

\* ------------------------------------------------- _download_with_resume
\* "existing and (expected_size is None or existing < expected_size)"
Resume(existing, expected) ==
    existing # 0 /\ (expected = None \/ existing < expected)

\* dest.open(mode) followed by the writes of n bytes
WriteOver(f, m, n) == Body(n)

Write(f, m, n) ==
    IF m = "ab" /\ f # NoFile THEN f \o Body(n) ELSE Body(n)

\* the return expression after the loop
FinalOkExists(f, expected) == f # NoFile

FinalOk(f, expected) ==
    f # NoFile /\ (expected = None \/ Len(f) * 100 >= expected * 95)

\* The locals of one call as a record; expected_size and max_retries do not
\* change during the call.  The call starts with the HEAD probe done.
DlStart(f, expected, retries) ==
    [dest      |-> f,
     attempt   |-> 1,
     headers   |-> NoRange,
     mode      |-> "none",
     truncated |-> FALSE,
     gets      |-> 0,
     pc        |-> IF retries >= 1 THEN "loop" ELSE "done",
     ret       |-> IF retries >= 1 THEN FALSE ELSE FinalOk(f, expected)]

\* the end of the loop: the return expression after it
DlFallOut(st, expected) ==
    [st EXCEPT !.pc = "done", !.ret = FinalOk(st.dest, expected)]

\* "continue", and "except Exception" when it is not the last attempt
DlNextAttempt(st, expected, retries) ==
    IF st.attempt = retries
    THEN DlFallOut(st, expected)
    ELSE [st EXCEPT !.attempt = st.attempt + 1]

\* a size check that returns False on a mismatch
DlSizeCheckGivesUp(st, expected, retries) ==
    IF expected # None /\ Size(st.dest) # expected
    THEN [st EXCEPT !.pc = "done", !.ret = FALSE]
    ELSE [st EXCEPT !.pc = "done", !.ret = TRUE]

\* the size check after a GET that ended normally
DlSizeCheck(st, expected, retries) ==
    IF expected # None /\ Size(st.dest) # expected
    THEN DlNextAttempt(st, expected, retries)
    ELSE [st EXCEPT !.pc = "done", !.ret = TRUE]

\* headers and mode of the attempt
DlRequest(st, expected) ==
    [st EXCEPT
        !.gets    = st.gets + 1,
        !.headers = IF Resume(Size(st.dest), expected) THEN Size(st.dest) ELSE NoRange,
        !.mode    = IF Resume(Size(st.dest), expected) THEN "ab" ELSE "wb"]

\* dest.open(mode) and the writes of a body of n bytes
DlWritten(st, n) ==
    [st EXCEPT
        !.dest      = Write(st.dest, st.mode, n),
        !.truncated = st.truncated \/ (st.mode = "wb" /\ st.dest # NoFile)]

\* One iteration of the retry loop, for every behaviour of the server whose
\* bodies have a length in lens: requests.get or raise_for_status raises (the
\* file is not opened); a body is written and the stream ends; a body is
\* written and then iter_content or f.write raises.
DlAttemptOutcomes(st, expected, retries, lens) ==
    LET req == DlRequest(st, expected)
    IN  {DlNextAttempt(req, expected, retries)}
        \cup {DlSizeCheck(DlWritten(req, n), expected, retries) : n \in lens}
        \cup {DlNextAttempt(DlWritten(req, n), expected, retries) : n \in lens}

RECURSIVE DlRun(_, _, _, _)
\* the states in which the calls in states S can return
DlRun(S, expected, retries, lens) ==
    UNION {IF \A st \in T : st.pc = "done" THEN T
           ELSE DlRun(UNION {IF st.pc = "done" THEN {st}
                             ELSE DlAttemptOutcomes(st, expected, retries, lens) :
                                st \in T},
                      expected, retries, lens) : T \in {S}}

\* _download_with_resume(url, dest, max_retries) as a whole: the states in
\* which it can return
download_with_resume(f, expected, retries, lens) ==
    DlRun({DlStart(f, expected, retries)}, expected, retries, lens)

\* the locals of the call in progress
DlState ==
    [dest |-> dest, attempt |-> attempt, headers |-> headers, mode |-> mode,
     truncated |-> truncated, gets |-> gets, pc |-> dl_pc, ret |-> dl_ret]

DlSet(st) ==
    /\ dest' = st.dest
    /\ attempt' = st.attempt
    /\ headers' = st.headers
    /\ mode' = st.mode
    /\ truncated' = st.truncated
    /\ gets' = st.gets
    /\ dl_pc' = st.pc
    /\ dl_ret' = st.ret

DlAttempt(lens) ==
    /\ dl_pc = "loop"
    /\ \E st \in DlAttemptOutcomes(DlState, expected_size, max_retries, lens) :
          DlSet(st)
    /\ UNCHANGED <<dest0, expected_size, max_retries, spvars, uzvars, dpvars, stvars>>

\* --------------------------------------------- the downloader on its own
DlIdle ==
    /\ dest = NoFile /\ dest0 = NoFile /\ expected_size = None
    /\ max_retries = 0 /\ attempt = 0 /\ headers = NoRange /\ mode = "none"
    /\ truncated = FALSE /\ gets = 0 /\ dl_pc = "idle" /\ dl_ret = FALSE

SpIdle ==
    /\ year_dir = <<>> /\ year_dir0 = <<>> /\ quarter_files = <<>>
    /\ year_int = 0 /\ monthly_buckets = <<>> /\ sp_pc = "idle" /\ sp_ret = 0

NoLast ==
    [status |-> "none", i |-> 0, year |-> 0, lookups |-> 0, downloads |-> 0,
     validations |-> 0, before |-> <<>>, mid |-> <<>>, quarterly |-> <<>>,
     split |-> FALSE, ret |-> 0, wres |-> <<>>]

UzIdle ==
    /\ zip_files = <<>> /\ raw = <<>> /\ interim = <<>>
    /\ meta = [exists |-> FALSE, docs |-> <<>>]
    /\ uz_i = 0 /\ uz_pc = "idle" /\ last = NoLast

DpIdle ==
    /\ dp_value = <<>> /\ dp_year = 0 /\ dp_parsed = <<>> /\ dp_result = <<>>
    /\ dp_pc = "idle"

\* a CSV file that was not written
NoCsv == [exists |-> FALSE, rows |-> <<>>]

StIdle ==
    /\ feeds_ok = FALSE /\ info_feed = <<>> /\ status_feed = <<>>
    /\ info_stations = <<>> /\ status_stations = <<>> /\ combined_rows = <<>>
    /\ combined_csv = NoCsv /\ st_pc = "idle"

InitDl == DlIdle /\ SpIdle /\ UzIdle /\ DpIdle /\ StIdle

DlCall ==
    /\ dl_pc = "idle"
    /\ \E f \in InitialFiles, e \in ExpectedSizes, r \in 0..MaxRetries :
          /\ DlSet(DlStart(f, e, r))
          /\ dest0' = f
          /\ expected_size' = e
          /\ max_retries' = r
    /\ UNCHANGED <<spvars, uzvars, dpvars, stvars>>

NextDl == DlCall \/ DlAttempt(BodyLens)

SpecDl == InitDl /\ [][NextDl]_vars

\* An attempt ends: requests.get has timeout=60 and the bodies are finite, so
\* the loop body is always taken to its end.
SpecDlFair == SpecDl /\ WF_vars(DlAttempt(BodyLens))

\* ------------------------------------------------------------ date values
\* A field value is the sequence of the numbers that its separators ('-' or
\* '/') delimit: <<2019, 7, 15>> is "2019-07-15", <<7, 15, 2019>> is
\* "07/15/2019", <<7>> is "7" and <<>> is the empty string.  A number of four
\* digits is a year; the others have one or two digits.
IsYear(n) == n >= 1000 /\ n <= 9999

\* no (year, month) was found
NoYm == <<>>

\* 1 <= mm <= 12
InMonthRange(mm) == 1 <= mm /\ mm <= 12

\* what \d{1,2} reads of a field that stands right before a separator: of a
\* field of four digits, the last two
LastTwo(n) == IF IsYear(n) THEN n % 100 ELSE n

\* what \d{1,2} reads of a field that stands right after a separator: of a
\* field of four digits, the first two
FirstTwo(n) == IF IsYear(n) THEN n \div 100 ELSE n

\* the smallest member of a set of numbers
MinOf(S) == CHOOSE x \in S : \A y \in S : x <= y

\* _y_m_d.search(v): the field the leftmost match starts in (0: no match):
\* four digits, a separator, one or two digits
YmdAt(v) ==
    LET at == {i \in 1..(Len(v) - 1) : IsYear(v[i])}
    IN  IF at = {} THEN 0 ELSE MinOf(at)

MatchYmd(v) == YmdAt(v) # 0

\* _m_d_y.search(v) and _d_m_y.search(v), the same text matching both: one or
\* two digits, a separator, one or two digits, a separator, four digits
XxYAt(v) ==
    LET at == {i \in 1..(Len(v) - 2) : ~IsYear(v[i + 1]) /\ IsYear(v[i + 2])}
    IN  IF at = {} THEN 0 ELSE MinOf(at)

MatchXxY(v) == XxYAt(v) # 0

\* the three patterns, DD/MM/YYYY tried before MM/DD/YYYY
parse_day_first(v) ==
    LET i == YmdAt(v)
        j == XxYAt(v)
    IN  IF Len(v) = 0 THEN NoYm
        ELSE IF MatchYmd(v) /\ InMonthRange(FirstTwo(v[i + 1]))
        THEN <<v[i], FirstTwo(v[i + 1])>>
        ELSE IF MatchXxY(v) /\ InMonthRange(v[j + 1])
        THEN <<v[j + 2], v[j + 1]>>
        ELSE IF MatchXxY(v) /\ InMonthRange(LastTwo(v[j]))
        THEN <<v[j + 2], LastTwo(v[j])>>
        ELSE NoYm

parse_year_month_any(v) ==
    LET i == YmdAt(v)
        j == XxYAt(v)
    IN  IF Len(v) = 0 THEN NoYm
        ELSE IF MatchYmd(v) /\ InMonthRange(FirstTwo(v[i + 1]))
        THEN <<v[i], FirstTwo(v[i + 1])>>
        ELSE IF MatchXxY(v) /\ InMonthRange(LastTwo(v[j]))
        THEN <<v[j + 2], LastTwo(v[j])>>
        ELSE IF MatchXxY(v) /\ InMonthRange(v[j + 1])
        THEN <<v[j + 2], v[j + 1]>>
        ELSE NoYm

\* 'YYYY-MM' is the pair <<YYYY, MM>>
extract_year_month(v, expected_year) ==
    LET parsed == parse_year_month_any(v)
    IN  IF parsed = NoYm THEN NoYm
        ELSE IF parsed[1] # expected_year THEN NoYm
        ELSE parsed

\* --------------------------------------------- the date parser on its own
\* most fields in a value
MaxFields == 3

\* the numbers a field can be: months, a day, two years
FieldNumbers == {3, 7, 15, 2012, 2023}

DateValues == UNION {[1..n -> FieldNumbers] : n \in 0..MaxFields}

ExpectedYears == {2012, 2023}

InitDp ==
    /\ DlIdle /\ SpIdle /\ UzIdle /\ StIdle
    /\ dp_value \in DateValues
    /\ dp_year \in ExpectedYears
    /\ dp_parsed = <<>> /\ dp_result = <<>>
    /\ dp_pc = "call"

\* _extract_year_month(value, expected_year)
DpExtract ==
    /\ dp_pc = "call"
    /\ dp_parsed' = parse_year_month_any(dp_value)
    /\ dp_result' = extract_year_month(dp_value, dp_year)
    /\ dp_pc' = "done"
    /\ UNCHANGED <<dp_value, dp_year, dlvars, spvars, uzvars, stvars>>

NextDp == DpExtract

SpecDp == InitDp /\ [][NextDp]_vars

\* ------------------------------------------------------------ header names
NoCol == "<none>"

\* the names h with "start" in h.lower()
HasStart == {"Start Time", "Started At"}

\* the names h with "time", "date" or "datetime" in h.lower()
HasTimeOrDate == {"Start Time", "End Time"}

\* the exact names of the fallback, in the order they are tried
ExactNames ==
    <<"Start Time", "Trip Start Time", "Start time", "start_time", "starttime",
      "start", "Start Date", "StartDate", "Started At", "started_at",
      "Started at">>

infer_start_datetime_field(hdr) ==
    LET first == {i \in 1..Len(hdr) :
                    hdr[i] \in HasStart /\ hdr[i] \in HasTimeOrDate}
        exact == {j \in 1..Len(ExactNames) :
                    \E i \in 1..Len(hdr) : hdr[i] = ExactNames[j]}
    IN  IF first # {} THEN hdr[MinOf(first)]
        ELSE IF exact # {} THEN ExactNames[MinOf(exact)]
        ELSE NoCol

\* ------------------------------------------------------------- CSV files
\* A CSV file: its header line, its rows (each a sequence of values, one per
\* header column) and whether its bytes decode as UTF-8.
\* A row read by csv.DictReader: the (column, value) pairs in header order.
AsDict(hdr, vals) == [i \in 1..Len(hdr) |-> [col |-> hdr[i], val |-> vals[i]]]

RowHeader(row) == [i \in 1..Len(row) |-> row[i].col]

\* row.get(col, "")
RowGet(row, c) ==
    LET at == {i \in 1..Len(row) : row[i].col = c}
    IN  IF at = {} THEN <<>> ELSE row[MinOf(at)].val

\* "for v in row.values(): ym = _extract_year_month(v, year_int)"
ScanRow(row, year) ==
    LET hits == {i \in 1..Len(row) : extract_year_month(row[i].val, year) # NoYm}
    IN  IF hits = {} THEN NoYm
        ELSE extract_year_month(row[MinOf(hits)].val, year)

\* the bucket of one row (NoYm: the row is dropped)
RowBucket(row, start_col, year) ==
    LET ym == IF start_col # NoCol
              THEN extract_year_month(RowGet(row, start_col), year)
              ELSE NoYm
    IN  IF ym # NoYm THEN ym ELSE ScanRow(row, year)

\* ------------------------------------------ _split_quarterly_to_monthly
\* A directory maps the names of the files in it to their contents.  A name
\* is [q, y, m]: q is the quarter token of the name (0: none) and <<y, m>> the
\* year and month the name spells (<<0, 0>>: none); "2019-03.csv" is
\* [q |-> 0, y |-> 2019, m |-> 3].
OutName(ym) == [q |-> 0, y |-> ym[1], m |-> ym[2]]

\* any(q in name_lower for q in ('q1', 'q2', 'q3', 'q4'))
IsQuarterly(name) == name.q # 0

\* how many rows the reader yields before decoding fails (-1: not even the
\* header); a file that is valid UTF-8 is read to its end
RowsYielded(f, cut) ==
    IF f.utf8 THEN Len(f.rows)
    ELSE IF cut > Len(f.rows) - 1 THEN Len(f.rows) - 1
    ELSE cut

\* reader.fieldnames of the file (<<>>: none, the read failed)
FieldNames(dir, name, cut) ==
    IF name \notin DOMAIN dir THEN <<>>
    ELSE IF RowsYielded(dir[name], cut) < 0 THEN <<>>
    ELSE dir[name].header

\* the rows of the file that reach the bucketing loop
RowsRead(dir, name, cut) ==
    IF name \notin DOMAIN dir THEN <<>>
    ELSE IF RowsYielded(dir[name], cut) < 0 THEN <<>>
    ELSE LET f == dir[name]
         IN  [i \in 1..RowsYielded(f, cut) |-> AsDict(f.header, f.rows[i])]

\* the rows of one file that go to bucket ym, in file order
FileBucket(dir, name, cut, year, ym) ==
    LET start_col == infer_start_datetime_field(FieldNames(dir, name, cut))
        Goes(row) == RowBucket(row, start_col, year) = ym
    IN  SelectSeq(RowsRead(dir, name, cut), Goes)

RECURSIVE BucketUpTo(_, _, _, _, _, _)
\* monthly_buckets[ym] after the first n quarterly files
BucketUpTo(dir, qfs, cuts, year, ym, n) ==
    IF n = 0 THEN <<>>
    ELSE BucketUpTo(dir, qfs, cuts, year, ym, n - 1)
            \o FileBucket(dir, qfs[n], cuts[n], year, ym)

\* the buckets the rows of one file go to
FileKeys(dir, name, cut, year) ==
    LET start_col == infer_start_datetime_field(FieldNames(dir, name, cut))
        rows == RowsRead(dir, name, cut)
    IN  {RowBucket(rows[i], start_col, year) : i \in 1..Len(rows)} \ {NoYm}

\* the keys of monthly_buckets: the buckets some row went to
BucketKeys(dir, qfs, cuts, year) ==
    UNION {FileKeys(dir, qfs[n], cuts[n], year) : n \in 1..Len(qfs)}

Buckets(dir, qfs, cuts, year) ==
    [ym \in BucketKeys(dir, qfs, cuts, year) |->
        BucketUpTo(dir, qfs, cuts, year, ym, Len(qfs))]

\* header_order: the field names of the first file that has some (<<>>: None)
HeaderOrder(dir, qfs, cuts) ==
    LET has == {i \in 1..Len(qfs) : FieldNames(dir, qfs[i], cuts[i]) # <<>>}
    IN  IF has = {} THEN <<>>
        ELSE FieldNames(dir, qfs[MinOf(has)], cuts[MinOf(has)])

\* csv.DictWriter(fieldnames=header_order, extrasaction="ignore")
MonthlyFile(hdr, rows) ==
    [header |-> hdr,
     rows   |-> [k \in 1..Len(rows) |-> [i \in 1..Len(hdr) |-> RowGet(rows[k], hdr[i])]],
     utf8   |-> TRUE]

\* what a write that raised after open("w") leaves behind
BrokenFile == [header |-> <<>>, rows |-> <<>>, utf8 |-> TRUE]

\* "if not monthly_buckets or header_order is None: return 0"
NothingToWrite(b, hdr) == DOMAIN b = {} \/ hdr = <<>>

\* "if written > 0": the quarterly files are unlinked
DeletesAlways(written) == TRUE

Deletes(written) == written > 0

\* The writes and the deletion, given the buckets b and header_order hdr;
\* wres is how each monthly write ends ("ok", "open_fails": open raised,
\* "write_fails": a write raised after open).
WriteMonthly(dir, qfs, b, hdr, wres) ==
    LET okKeys  == {ym \in DOMAIN b : wres[ym] = "ok"}
        badKeys == {ym \in DOMAIN b : wres[ym] = "write_fails"}
        written == Cardinality(okKeys)
        gone    == IF Deletes(written) THEN {qfs[i] : i \in 1..Len(qfs)} ELSE {}
        names   == ((DOMAIN dir) \cup {OutName(ym) : ym \in okKeys \cup badKeys}) \ gone
        after   == [n \in names |->
                      IF \E ym \in okKeys : n = OutName(ym)
                      THEN MonthlyFile(hdr, b[<<n.y, n.m>>])
                      ELSE IF \E ym \in badKeys : n = OutName(ym)
                      THEN BrokenFile
                      ELSE dir[n]]
    IN  IF NothingToWrite(b, hdr)
        THEN [dir |-> dir, ret |-> 0, buckets |-> b]
        ELSE [dir |-> after, ret |-> written, buckets |-> b]

\* The whole function: dir is year_dir, qfs the paths in quarter_files, cuts
\* where reading each file fails.
Split(dir, qfs, year, cuts, wres) ==
    WriteMonthly(dir, qfs, Buckets(dir, qfs, cuts, year),
                 HeaderOrder(dir, qfs, cuts), wres)

\* ------------------------------------------------ the splitter on its own
\* first and last year of the archives that are processed
FirstYear == 2017
LastYear == 2024

\* most rows in one quarterly file
MaxRows == 1

\* values of the first column: no date, a date of the year, a date of the
\* next year
StartValues(year) ==
    {<<7>>, <<year, 1, 15>>, <<year + 1, 1, 15>>}

\* values of the other column: no date, a date of the year
OtherValues(year) == {<<7>>, <<15, 3, year>>}

RowsOf(year) == {<<a, b>> : a \in StartValues(year), b \in OtherValues(year)}

\* a start column found by its words, one found by its exact name, none
Headers ==
    {<<"Start Time", "End Time">>, <<"Started At", "End Time">>,
     <<"Begin", "End Time">>}

\* the quarterly files of one export: they have the header hdr
QuarterFiles(year, hdr) ==
    [header : {hdr},
     rows   : UNION {[1..n -> RowsOf(year)] : n \in 0..MaxRows},
     utf8   : BOOLEAN]

QName(k) == [q |-> k, y |-> 0, m |-> 0]

\* a directory holding the files fs under the names Q1, Q2, ...
DirOf(fs) == [n \in {QName(k) : k \in 1..Len(fs)} |-> fs[n.q]]

\* where the reads may fail: only a file that is not UTF-8 fails
CutsFor(dir, qfs) ==
    {c \in [1..Len(qfs) -> (0 - 1)..(MaxRows - 1)] :
        \A i \in 1..Len(qfs) :
            (qfs[i] \notin DOMAIN dir \/ dir[qfs[i]].utf8) => c[i] = 0 - 1}

WriteResults == {"ok", "open_fails", "write_fails"}

\* how the monthly writes may end: only a non-empty bucket is written
WresFor(b) == [DOMAIN b -> WriteResults]

\* the splitter is called on a directory of one or two quarterly files
InitSp ==
    /\ DlIdle /\ UzIdle /\ DpIdle /\ StIdle
    /\ year_int = FirstYear
    /\ \E hdr \in Headers :
         \E f \in QuarterFiles(FirstYear, hdr) :
            \/ year_dir = DirOf(<<f>>)
            \/ \E g \in QuarterFiles(FirstYear, hdr) : year_dir = DirOf(<<f, g>>)
    /\ year_dir0 = year_dir
    /\ quarter_files = [k \in 1..Cardinality(DOMAIN year_dir) |-> QName(k)]
    /\ monthly_buckets = <<>>
    /\ sp_pc = "call"
    /\ sp_ret = 0

SplitRun ==
    /\ sp_pc = "call"
    /\ \E cuts \in CutsFor(year_dir, quarter_files) :
         \E b \in {Buckets(year_dir, quarter_files, cuts, year_int)} :
            \E wres \in WresFor(b) :
               \E r \in {Split(year_dir, quarter_files, year_int, cuts, wres)} :
                  /\ year_dir' = r.dir
                  /\ sp_ret' = r.ret
                  /\ monthly_buckets' = r.buckets
    /\ sp_pc' = "done"
    /\ UNCHANGED <<year_dir0, quarter_files, year_int, dlvars, uzvars, dpvars, stvars>>

NextSp == SplitRun

SpecSp == InitSp /\ [][NextSp]_vars

\* ------------------------------------------------- unzip_ridership_files
\* size of the archive the server holds
ArchSize == 2

\* most entries in one archive
MaxMembers == 2

\* the bytes of the archive as published
Genuine == Body(ArchSize)

\* zipfile.is_zipfile(zip_path): only the published bytes are a ZIP file
is_zipfile(f) == f = Genuine

\* max_retries of the repair download
RepairRetries == 6

\* what HEAD and GET can answer for the archive's URL
RepairExpected == {None, ArchSize}

RepairLens == 0..ArchSize

\* "if year_int < 2017 or year_int > 2024: continue"
InRange(y) == y >= FirstYear /\ y <= LastYear

\* _find_year_resource_url: a document of META_DIR is [json, years, url]:
\* whether json.load succeeds, the years str(year) is found in its name for,
\* and its url ("": none)
NoUrl == ""

find_year_resource_url(md, year) ==
    IF ~md.exists THEN NoUrl
    ELSE LET hits == {k \in 1..Len(md.docs) :
                        /\ md.docs[k].json
                        /\ year \in md.docs[k].years
                        /\ md.docs[k].url # NoUrl}
         IN  IF hits = {} THEN NoUrl ELSE md.docs[MinOf(hits)].url

\* the files of a year directory (none when the directory does not exist)
DirFiles(I, y) == IF y \in DOMAIN I THEN I[y] ELSE <<>>

\* year_dir.mkdir(exist_ok=True)
Mkdir(I, y) ==
    IF y \in DOMAIN I THEN I
    ELSE [z \in (DOMAIN I) \cup {y} |-> IF z = y THEN <<>> ELSE I[z]]

\* the directory with file f written at name
Put(dir, name, f) ==
    [n \in (DOMAIN dir) \cup {name} |-> IF n = name THEN f ELSE dir[n]]

SetDir(I, y, dir) ==
    [z \in (DOMAIN I) \cup {y} |-> IF z = y THEN dir ELSE I[z]]

\* An archive entry is [isdir, csv, folder, name, file]: whether its path ends
\* with '/', whether its name ends with ".csv", the folder of its path, its
\* base name and its content.
IsCsvEntry(mb) == ~mb.isdir /\ mb.csv

RECURSIVE ExtractUpTo(_, _, _)
\* the loop over zip_ref.namelist() after its first k entries
ExtractUpTo(dir, members, k) ==
    IF k = 0 THEN [dir |-> dir, monthly |-> <<>>, quarterly |-> <<>>]
    ELSE LET prev == ExtractUpTo(dir, members, k - 1)
             mb   == members[k]
         IN  IF ~IsCsvEntry(mb) THEN prev
             ELSE [dir       |-> Put(prev.dir, mb.name, mb.file),
                   monthly   |-> IF IsQuarterly(mb.name) THEN prev.monthly
                                 ELSE Append(prev.monthly, mb.name),
                   quarterly |-> IF IsQuarterly(mb.name)
                                 THEN Append(prev.quarterly, mb.name)
                                 ELSE prev.quarterly]

\* "if not monthly_files and quarterly_files"
Splits(monthly, quarterly) == monthly = <<>> /\ quarterly # <<>>

\* the year directory with every CSV entry of the archive extracted
YearDirExtracted(dir, members) == ExtractUpTo(dir, members, Len(members)).dir

\* the year directory after one of the three "continue" of the repair path:
\* the archive is not opened
YearDirAfterSkip(dir, members) == dir

Cur == zip_files[uz_i]

UzAtArchive == uz_pc = "loop" /\ uz_i >= 1 /\ uz_i <= Len(zip_files)

\* the loop is left after the current archive
UzAdvanceAborts ==
    /\ uz_i' = uz_i + 1
    /\ uz_pc' = "done"
    /\ UNCHANGED <<zip_files, meta, dlvars, spvars, dpvars, stvars>>

UzAdvance ==
    /\ uz_i' = uz_i + 1
    /\ uz_pc' = IF uz_i = Len(zip_files) THEN "done" ELSE "loop"
    /\ UNCHANGED <<zip_files, meta, dlvars, spvars, dpvars, stvars>>

\* what an iteration records of itself
LastOf(status, lookups, downloads, validations) ==
    [NoLast EXCEPT !.status = status, !.i = uz_i, !.year = Cur.year,
                   !.lookups = lookups, !.downloads = downloads,
                   !.validations = validations,
                   !.before = DirFiles(interim, Cur.year)]

\* the year of the archive is not in 2017..2024
UzIgnore ==
    /\ UzAtArchive
    /\ ~InRange(Cur.year)
    /\ last' = LastOf("ignored", 0, 0, 0)
    /\ UNCHANGED <<raw, interim>>
    /\ UzAdvance

\* the archive is invalid and no metadata document gives its URL
UzNoUrl ==
    /\ UzAtArchive
    /\ InRange(Cur.year)
    /\ ~is_zipfile(raw[uz_i])
    /\ find_year_resource_url(meta, Cur.year) = NoUrl
    /\ interim' = SetDir(Mkdir(interim, Cur.year), Cur.year,
                         YearDirAfterSkip(DirFiles(interim, Cur.year), Cur.members))
    /\ last' = LastOf("no_url", 1, 0, 1)
    /\ UNCHANGED raw
    /\ UzAdvance

\* the states in which the repair download of the current archive can return
RepairOutcomes ==
    {[dest |-> st.dest, ret |-> st.ret] :
        st \in UNION {download_with_resume(raw[uz_i], e, RepairRetries, RepairLens) :
                        e \in RepairExpected}}

UzRepairing ==
    /\ UzAtArchive
    /\ InRange(Cur.year)
    /\ ~is_zipfile(raw[uz_i])
    /\ find_year_resource_url(meta, Cur.year) # NoUrl

\* the repair download returns False
UzRepairFails(st) ==
    /\ ~st.ret
    /\ raw' = [raw EXCEPT ![uz_i] = st.dest]
    /\ interim' = SetDir(Mkdir(interim, Cur.year), Cur.year,
                         YearDirAfterSkip(DirFiles(interim, Cur.year), Cur.members))
    /\ last' = LastOf("dl_failed", 1, 1, 1)
    /\ UzAdvance

\* the repair download returns True and the file is still no ZIP file
UzStillInvalid(st) ==
    /\ st.ret
    /\ ~is_zipfile(st.dest)
    /\ raw' = [raw EXCEPT ![uz_i] = st.dest]
    /\ interim' = SetDir(Mkdir(interim, Cur.year), Cur.year,
                         YearDirAfterSkip(DirFiles(interim, Cur.year), Cur.members))
    /\ last' = LastOf("still_invalid", 1, 1, 2)
    /\ UzAdvance

\* The try block on a valid archive, base being what the iteration did before.
\* An exception is raised at entry upto + 1 (or by ZipFile itself), which
\* may leave a partly written target behind
UzExtractFails(base) ==
    \E upto \in 0..Len(Cur.members), partial \in BOOLEAN :
        LET ex   == ExtractUpTo(DirFiles(interim, Cur.year), Cur.members, upto)
            hits == upto < Len(Cur.members) /\ IsCsvEntry(Cur.members[upto + 1])
        IN  /\ upto < Len(Cur.members) \/ upto = 0
            /\ partial => hits
            /\ interim' = SetDir(interim, Cur.year,
                             IF partial
                             THEN Put(ex.dir, Cur.members[upto + 1].name, BrokenFile)
                             ELSE ex.dir)
            /\ last' = [base EXCEPT !.status = "error", !.mid = ex.dir,
                                    !.quarterly = ex.quarterly]

\* every entry is extracted and the quarterly files are split
UzExtractSplit(base) ==
    \E ex \in {ExtractUpTo(DirFiles(interim, Cur.year), Cur.members, Len(Cur.members))} :
        /\ Splits(ex.monthly, ex.quarterly)
        /\ \E cuts \in CutsFor(ex.dir, ex.quarterly) :
             \E b \in {Buckets(ex.dir, ex.quarterly, cuts, Cur.year)} :
                \E wres \in WresFor(b) :
                   \E r \in {Split(ex.dir, ex.quarterly, Cur.year, cuts, wres)} :
                      /\ interim' = SetDir(interim, Cur.year, r.dir)
                      /\ last' = [base EXCEPT !.status = "extracted", !.mid = ex.dir,
                                     !.quarterly = ex.quarterly, !.split = TRUE,
                                     !.ret = r.ret, !.wres = wres]

\* every entry is extracted and there is nothing to split
UzExtractPlain(base) ==
    \E ex \in {ExtractUpTo(DirFiles(interim, Cur.year), Cur.members, Len(Cur.members))} :
        /\ ~Splits(ex.monthly, ex.quarterly)
        /\ interim' = SetDir(interim, Cur.year, ex.dir)
        /\ last' = [base EXCEPT !.status = "extracted", !.mid = ex.dir,
                                !.quarterly = ex.quarterly]

UzTry(base) == UzExtractFails(base) \/ UzExtractSplit(base) \/ UzExtractPlain(base)

\* the archive is valid
UzExtractValid ==
    /\ UzAtArchive
    /\ InRange(Cur.year)
    /\ is_zipfile(raw[uz_i])
    /\ UzTry(LastOf("", 0, 0, 1))
    /\ UNCHANGED raw
    /\ UzAdvance

\* the repair download returns True and the file is a ZIP file
UzRepaired(st) ==
    /\ st.ret
    /\ is_zipfile(st.dest)
    /\ raw' = [raw EXCEPT ![uz_i] = st.dest]
    /\ UzTry(LastOf("", 1, 1, 2))
    /\ UzAdvance

\* the archive is invalid and a URL is found: the repair download is called
UzRepair ==
    /\ UzRepairing
    /\ \E st \in RepairOutcomes :
          UzRepairFails(st) \/ UzStillInvalid(st) \/ UzRepaired(st)

\* ------------------------------------------------ the extractor on its own
\* the entries an archive of year y is made of: a text file in a folder, a
\* monthly CSV, two quarterly CSVs of the same base name in two folders, and
\* a third quarterly CSV
QuarterlyCsv(y, mm) ==
    [header |-> <<"Start Time", "End Time">>,
     rows   |-> <<<<<<y, mm, 15>>, <<7>>>>>>,
     utf8   |-> TRUE]

Entries(y) ==
    {[isdir |-> FALSE, csv |-> FALSE, folder |-> 1, name |-> QName(0), file |-> BrokenFile],
     [isdir |-> FALSE, csv |-> TRUE, folder |-> 0, name |-> OutName(<<y, 1>>),
      file |-> MonthlyFile(<<"Start Time">>, <<>>)],
     [isdir |-> FALSE, csv |-> TRUE, folder |-> 1, name |-> QName(1),
      file |-> QuarterlyCsv(y, 1)],
     [isdir |-> FALSE, csv |-> TRUE, folder |-> 2, name |-> QName(1),
      file |-> QuarterlyCsv(y, 2)],
     [isdir |-> FALSE, csv |-> TRUE, folder |-> 0, name |-> QName(2),
      file |-> QuarterlyCsv(y, 3)]}

\* the entries of an archive have different paths
MemberLists(y) ==
    {ms \in UNION {[1..n -> Entries(y)] : n \in 0..MaxMembers} :
        \A i, j \in 1..Len(ms) : ms[i] = ms[j] => i = j}

\* the archive files a run can find for a year: the published archive, a
\* part of it, a file of other bytes
LocalArchives == {Genuine, <<"s">>, <<"c">>}

\* META_DIR: missing, or holding a document that does not parse followed by
\* one for the year that has a URL or has none
MetaDirs(y) ==
    {[exists |-> FALSE, docs |-> <<>>]}
    \cup {[exists |-> TRUE,
           docs |-> <<[json |-> FALSE, years |-> {y}, url |-> "url1"],
                      [json |-> TRUE, years |-> {y}, url |-> u]>>] :
            u \in {NoUrl, "url2"}}

\* an archive with one monthly CSV
PlainArchive(y) ==
    [year |-> y, members |-> <<CHOOSE mb \in Entries(y) : mb.name = OutName(<<y, 1>>)>>]

\* The archive under study is of year FirstYear + 1; it follows an archive
\* of FirstYear or of the year before, or is followed by an archive of the
\* next year.
ZipFileLists ==
    LET Y == FirstYear + 1
    IN  UNION {
          {<<PlainArchive(FirstYear), [year |-> Y, members |-> ms]>>,
           <<PlainArchive(FirstYear - 1), [year |-> Y, members |-> ms]>>,
           <<[year |-> Y, members |-> ms], PlainArchive(Y + 1)>>}
          : ms \in MemberLists(Y)}

\* a file left in the year directory by an earlier run
OldDir(y) == [n \in {OutName(<<y, 12>>)} |-> MonthlyFile(<<"Start Time">>, <<>>)]

InitUz ==
    /\ DlIdle /\ SpIdle /\ DpIdle /\ StIdle
    /\ zip_files \in ZipFileLists
    /\ \E f \in LocalArchives :
          /\ raw = [k \in 1..Len(zip_files) |->
                       IF zip_files[k].year = FirstYear + 1 THEN f ELSE Genuine]
          \* the archives that need a repair hold one entry at most
          /\ \A k \in 1..Len(zip_files) :
                ~is_zipfile(f) => Len(zip_files[k].members) <= 1
    /\ meta \in MetaDirs(FirstYear + 1)
    /\ is_zipfile(raw[CHOOSE k \in 1..Len(zip_files) : zip_files[k].year = FirstYear + 1])
          => ~meta.exists
    /\ interim \in {<<>>, [y \in {FirstYear + 1} |-> OldDir(FirstYear + 1)]}
    /\ uz_i = 1
    /\ uz_pc = "loop"
    /\ last = NoLast

NextUz ==
    \/ UzIgnore
    \/ UzNoUrl
    \/ UzRepair
    \/ UzExtractValid

SpecUz == InitUz /\ [][NextUz]_vars

\* --------------------------------------------------- download_station_data
\* A feed row is a function from its keys to their values (all strings).
\* row.get(key): None when the key is missing
NoValue == "<None>"

Get(row, k) == IF k \in DOMAIN row THEN row[k] ELSE NoValue

\* "if sid" is false: None or the empty string
Falsy(v) == v \in {NoValue, ""}

\* seen after the first n rows
SeenUpTo(rows, n) ==
    {Get(rows[i], "station_id") : i \in 1..n} \ {NoValue, ""}

\* row n is appended to deduped
Kept(rows, n) ==
    LET sid == Get(rows[n], "station_id")
    IN  ~(~Falsy(sid) /\ sid \in SeenUpTo(rows, n - 1))

RECURSIVE DedupeUpTo(_, _)
\* deduped after the first n rows
DedupeUpTo(rows, n) ==
    IF n = 0 THEN <<>>
    ELSE IF Kept(rows, n) THEN Append(DedupeUpTo(rows, n - 1), rows[n])
    ELSE DedupeUpTo(rows, n - 1)

dedupe_by_station_id(rows) == DedupeUpTo(rows, Len(rows))

\* _collect_fieldnames: the keys of the rows (the order of the columns is
\* left out)
collect_fieldnames(rows) == UNION {DOMAIN rows[i] : i \in 1..Len(rows)}

\* {}
EmptyRow == <<>>

\* info_lookup.get(station_id, {}): of the info rows that have the key
\* "station_id" with this value, the last one
LookupGet(info, sid) ==
    LET at == {i \in 1..Len(info) :
                 "station_id" \in DOMAIN info[i] /\ info[i]["station_id"] = sid}
    IN  IF at = {} THEN EmptyRow
        ELSE info[CHOOSE i \in at : \A j \in at : j <= i]

\* {**a, **b}
Combine(a, b) ==
    [k \in (DOMAIN a) \cup (DOMAIN b) |-> IF k \in DOMAIN b THEN b[k] ELSE a[k]]

RECURSIVE InnerUpTo(_, _, _)
\* one combined row per status row that has an info row
InnerUpTo(info, status, n) ==
    IF n = 0 THEN <<>>
    ELSE LET found == LookupGet(info, Get(status[n], "station_id"))
         IN  IF found = EmptyRow THEN InnerUpTo(info, status, n - 1)
             ELSE Append(InnerUpTo(info, status, n - 1), Combine(found, status[n]))

CombinedInner(info, status) == InnerUpTo(info, status, Len(status))

\* the loop "for status_row in status_stations"
CombinedRows(info, status) ==
    [n \in 1..Len(status) |->
        Combine(LookupGet(info, Get(status[n], "station_id")), status[n])]

\* _write_csv: csv.DictWriter writes "" for a field a row does not have
write_csv(rows, fieldnames) ==
    [n \in 1..Len(rows) |->
        [f \in fieldnames |-> IF f \in DOMAIN rows[n] THEN rows[n][f] ELSE ""]]

\* --------------------------------------------- the station feeds on their own
\* most rows in one feed
MaxStations == 2

\* station_information rows: two for station "A", one for "B", one with an
\* empty id, one without the key
InfoRows ==
    {[station_id |-> "A", name |-> "n1", capacity |-> "10"],
     [station_id |-> "A", name |-> "n2", capacity |-> "10"],
     [station_id |-> "B", name |-> "n1", capacity |-> "10"],
     [station_id |-> "", name |-> "n1", capacity |-> "10"],
     [name |-> "n2", capacity |-> "10"]}

\* station_status rows: two for station "A" (one with another capacity than
\* the info feed has), one for "C", one with an empty id, one without the key
StatusRows ==
    {[station_id |-> "A", bikes |-> "1"],
     [station_id |-> "A", bikes |-> "2", capacity |-> "12"],
     [station_id |-> "C", bikes |-> "1"],
     [station_id |-> "", bikes |-> "1"],
     [bikes |-> "2"]}

InitSt ==
    /\ DlIdle /\ SpIdle /\ UzIdle /\ DpIdle
    /\ feeds_ok \in BOOLEAN
    /\ info_feed \in UNION {[1..n -> InfoRows] : n \in 0..MaxStations}
    /\ status_feed \in UNION {[1..n -> StatusRows] : n \in 0..MaxStations}
    /\ info_stations = <<>> /\ status_stations = <<>> /\ combined_rows = <<>>
    /\ combined_csv = NoCsv
    /\ st_pc = "call"

\* _fetch_feed raises: "Failed to download GBFS feeds", return
StFetchFails ==
    /\ st_pc = "call" /\ ~feeds_ok
    /\ st_pc' = "done"
    /\ UNCHANGED <<feeds_ok, info_feed, status_feed, info_stations,
                   status_stations, combined_rows, combined_csv,
                   dlvars, spvars, uzvars, dpvars>>

\* "if not info_stations or not status_stations": return
StNoRecords ==
    /\ st_pc = "call" /\ feeds_ok
    /\ info_stations' = dedupe_by_station_id(info_feed)
    /\ status_stations' = dedupe_by_station_id(status_feed)
    /\ info_stations' = <<>> \/ status_stations' = <<>>
    /\ st_pc' = "done"
    /\ UNCHANGED <<feeds_ok, info_feed, status_feed, combined_rows, combined_csv,
                   dlvars, spvars, uzvars, dpvars>>

\* the three CSV files are written
StWrite ==
    /\ st_pc = "call" /\ feeds_ok
    /\ info_stations' = dedupe_by_station_id(info_feed)
    /\ status_stations' = dedupe_by_station_id(status_feed)
    /\ info_stations' # <<>> /\ status_stations' # <<>>
    /\ combined_rows' = CombinedRows(info_stations', status_stations')
    /\ combined_csv' = [exists |-> TRUE,
                        rows   |-> write_csv(combined_rows',
                                     collect_fieldnames(info_stations')
                                        \cup collect_fieldnames(status_stations'))]
    /\ st_pc' = "done"
    /\ UNCHANGED <<feeds_ok, info_feed, status_feed, dlvars, spvars, uzvars, dpvars>>

NextSt == StFetchFails \/ StNoRecords \/ StWrite

SpecSt == InitSt /\ [][NextSt]_vars

\* ------------------------------------------------------------ claims C1, C2
\* the download was called on a partial file: 0 < k < expected_size
PartialAtCall ==
    /\ dest0 # NoFile /\ Len(dest0) > 0
    /\ expected_size # None /\ Len(dest0) < expected_size

\* f still starts with the bytes of g
StartsWith(f, g) ==
    /\ f # NoFile /\ g # NoFile
    /\ Len(f) >= Len(g)
    /\ SubSeq(f, 1, Len(g)) = g

\* C1 as stated: a download called on a partial file of k bytes returns with
\* the first k bytes of the file being the bytes that were there at the call,
\* whatever the server sent and however many attempts were made.
C1_PrefixKeptAlways ==
    (dl_pc = "done" /\ PartialAtCall) => StartsWith(dest, dest0)

\* an attempt of the retry loop that starts on a partial file
PartialAttempt ==
    /\ dl_pc = "loop" /\ dest # NoFile /\ Len(dest) > 0
    /\ expected_size # None /\ Len(dest) < expected_size

\* C1 amended: every attempt that starts on a file of k bytes, 0 < k <
\* expected_size, asks for Range k, opens in append mode and leaves the first
\* k bytes alone; and the download returns with the bytes present at the call
\* still in front unless some attempt opened an existing file in "wb" mode
\* (an attempt that started with the file at or above the expected size).
C1_ResumeKeepsPrefix ==
    /\ [][PartialAttempt =>
            /\ headers' = Len(dest)
            /\ mode' = "ab"
            /\ StartsWith(dest', dest)]_vars
    /\ []((dl_pc = "done" /\ PartialAtCall /\ ~truncated)
            => StartsWith(dest, dest0))

\* C1 witness: a partial file with a foreign byte was resumed over two
\* attempts and the download returned
C1_Witness ==
    /\ dl_pc = "done" /\ PartialAtCall /\ ~truncated
    /\ attempt >= 2 /\ mode = "ab" /\ headers > Len(dest0)
    /\ dest0[1] = "c" /\ Len(dest) > Len(dest0) /\ dl_ret

\* C2: the value returned is TRUE exactly when the file has the expected
\* size, or the size is unknown and the file exists, or the file covers at
\* least 95% of the expected size.
C2_ReturnValue ==
    dl_pc = "done" =>
        (dl_ret <=>
            \/ dest # NoFile /\ expected_size # None /\ Len(dest) = expected_size
            \/ expected_size = None /\ dest # NoFile
            \/ dest # NoFile /\ expected_size # None
                 /\ Len(dest) * 100 >= expected_size * 95)

\* C2 witness: TRUE returned for a file shorter than expected (the 95% case)
C2_Witness ==
    /\ dl_pc = "done" /\ dl_ret /\ dest # NoFile
    /\ expected_size # None /\ Len(dest) < expected_size

\* C2 witness of the other side: FALSE returned for an existing short file
C2_WitnessFalse ==
    /\ dl_pc = "done" /\ ~dl_ret /\ dest # NoFile /\ Len(dest) > 0
    /\ attempt = max_retries /\ max_retries >= 1

\* ------------------------------------------------------- claims C3 .. C6
\* C3: when the repair download has returned False, the archive file it
\* was downloading to is no longer there once the iteration is over.
C3_FailedRepairRemovesFile ==
    last.status = "dl_failed" => raw[last.i] = NoFile

\* the year directory of the archive processed last
LastDir == DirFiles(interim, last.year)

\* the archive processed last failed validation and was not repaired
Skipped == last.status \in {"no_url", "dl_failed", "still_invalid"}

\* C4: when an in-range archive has been processed, its year directory holds
\* no file with a quarter token in its name, or extraction failed and the
\* directory holds exactly the files it held before.
C4_YearBucket ==
    last.status \in {"extracted", "error"} =>
        \/ \A n \in DOMAIN LastDir : ~IsQuarterly(n)
        \/ last.status = "error" /\ LastDir = last.before

\* C5: an iteration makes one URL lookup, one download and one
\* re-validation at most; an archive that failed validation and has no URL,
\* or whose download failed, or that is still invalid, has none of its
\* entries extracted, leaves the files of its year directory as they were,
\* and the loop goes on to the next archive.
C5_CorruptArchiveSkipped ==
    /\ last.lookups <= 1 /\ last.downloads <= 1 /\ last.validations <= 2
    /\ Skipped =>
          /\ ~is_zipfile(raw[last.i])
          /\ LastDir = last.before
          /\ last.mid = <<>> /\ last.quarterly = <<>> /\ ~last.split
          /\ uz_i = last.i + 1
          /\ uz_pc = IF last.i = Len(zip_files) THEN "done" ELSE "loop"

\* C5 witness: an archive with a CSV entry was skipped after a download
\* that left it invalid
C5_Witness ==
    /\ last.status = "still_invalid" /\ last.i = 1 /\ uz_pc = "loop"
    /\ \E k \in 1..Len(zip_files[1].members) : IsCsvEntry(zip_files[1].members[k])

\* C5 witness of the loop going on: the first archive is still invalid and
\* the second one has been extracted
C5_WitnessNext ==
    /\ uz_pc = "done" /\ last.i = 2 /\ last.status = "extracted"
    /\ ~is_zipfile(raw[1]) /\ InRange(zip_files[1].year)

RECURSIVE SumRows(_, _)
\* the rows of the files of dir named in names, added up
SumRows(dir, names) ==
    IF names = {} THEN 0
    ELSE LET n == CHOOSE x \in names : TRUE
         IN  Len(dir[n].rows) + SumRows(dir, names \ {n})

\* how many rows of file f the bucketing loop gives a month of year
DatedRows(f, year) ==
    Cardinality({i \in 1..Len(f.rows) :
        RowBucket(AsDict(f.header, f.rows[i]),
                  infer_start_datetime_field(f.header), year) # NoYm})

RECURSIVE SumDated(_, _, _)
SumDated(dir, names, year) ==
    IF names = {} THEN 0
    ELSE LET n == CHOOSE x \in names : TRUE
         IN  DatedRows(dir[n], year) + SumDated(dir, names \ {n}, year)

\* C6: after the split of an archive of quarterly CSVs only, every write
\* having succeeded, the monthly files of the year hold as many rows as the
\* quarterly files that were in the directory before the split have rows
\* with a date of the year.
C6_SplitTotal ==
    (/\ last.status = "extracted" /\ last.split
     /\ \A ym \in DOMAIN last.wres : last.wres[ym] = "ok") =>
        SumRows(LastDir, {n \in DOMAIN LastDir : ~IsQuarterly(n)})
          = SumDated(last.mid, {n \in DOMAIN last.mid : IsQuarterly(n)}, last.year)

\* ------------------------------------------------------ claims C7 .. C10
\* the rows of monthly_buckets[ym] as a set
BucketRows(ym) == {monthly_buckets[ym][i] : i \in 1..Len(monthly_buckets[ym])}

\* C7: a row of a file in which a start column was identified is bucketed
\* only by the value of that column: it is in bucket ym only when that value
\* parses to ym, a month of the archive's year.
C7_StartColumnDecides ==
    sp_pc = "done" =>
        \A ym \in DOMAIN monthly_buckets : \A row \in BucketRows(ym) :
            LET start_col == infer_start_datetime_field(RowHeader(row))
            IN  start_col # NoCol =>
                    extract_year_month(RowGet(row, start_col), year_int) = ym

\* some quarterly input is no longer in the directory
SomeQuarterlyDeleted ==
    \E i \in 1..Len(quarter_files) : quarter_files[i] \notin DOMAIN year_dir

\* C8: a batch from which no row was bucketed makes the split return 0 and
\* leave the directory as it was (no monthly file written, no quarterly file
\* deleted); and quarterly files are deleted only when the count returned is
\* greater than 0.
C8_ZeroBucketRule ==
    sp_pc = "done" =>
        /\ DOMAIN monthly_buckets = {} => (sp_ret = 0 /\ year_dir = year_dir0)
        /\ SomeQuarterlyDeleted => sp_ret > 0

\* C8 witness: two quarterly files with rows, none of them bucketed, and
\* the split has returned
C8_Witness ==
    /\ sp_pc = "done" /\ DOMAIN monthly_buckets = {} /\ sp_ret = 0
    /\ Len(quarter_files) = 2
    /\ \A i \in 1..2 : /\ year_dir0[quarter_files[i]].utf8
                       /\ Len(year_dir0[quarter_files[i]].rows) > 0

\* no row of the file is one the bucketing loop would put in a bucket
NoRowBuckets(f) ==
    \A i \in 1..Len(f.rows) :
        RowBucket(AsDict(f.header, f.rows[i]),
                  infer_start_datetime_field(f.header), year_int) = NoYm

\* C9: a quarterly file of the batch from which zero rows were bucketed is
\* still in the year directory, unchanged, after the split.
C9_ZeroRowFileKept ==
    sp_pc = "done" =>
        \A i \in 1..Len(quarter_files) :
            NoRowBuckets(year_dir0[quarter_files[i]]) =>
                /\ quarter_files[i] \in DOMAIN year_dir
                /\ year_dir[quarter_files[i]] = year_dir0[quarter_files[i]]

\* C10: every row of a quarterly file that is Latin-1 but not UTF-8 is
\* offered for bucketing: each of its rows that has a date of the year is in
\* the bucket of that date.
C10_Latin1RowsBucketed ==
    sp_pc = "done" =>
        \A i \in 1..Len(quarter_files) :
            LET f == year_dir0[quarter_files[i]]
            IN  ~f.utf8 =>
                  \A k \in 1..Len(f.rows) :
                     LET row == AsDict(f.header, f.rows[k])
                         ym  == RowBucket(row, infer_start_datetime_field(f.header),
                                          year_int)
                     IN  ym # NoYm =>
                            /\ ym \in DOMAIN monthly_buckets
                            /\ row \in BucketRows(ym)

\* ----------------------------------------------------- claims C11 .. C17
\* the value is a year, a short field and maybe a second one: YYYY-MM[-DD]
IsYmdValue(v) ==
    /\ Len(v) \in {2, 3} /\ IsYear(v[1]) /\ ~IsYear(v[2])
    /\ Len(v) = 3 => ~IsYear(v[3])

\* the value is two short fields and a year: MM/DD/YYYY or DD/MM/YYYY
IsXxYValue(v) == Len(v) = 3 /\ ~IsYear(v[1]) /\ ~IsYear(v[2]) /\ IsYear(v[3])

\* what the order YYYY-MM[-DD], MM/DD/YYYY, DD/MM/YYYY makes of a value of
\* one of the two shapes
InOrder(v) ==
    IF IsYmdValue(v)
    THEN (IF InMonthRange(v[2]) THEN <<v[1], v[2]>> ELSE NoYm)
    ELSE IF InMonthRange(v[1]) THEN <<v[3], v[1]>>
    ELSE IF InMonthRange(v[2]) THEN <<v[3], v[2]>>
    ELSE NoYm

\* C11: a value of the shape YYYY-MM[-DD], MM/DD/YYYY or DD/MM/YYYY parses to
\* the year and month of the first of the three patterns, in that order, that
\* gives a month in 1..12 (two fields of at most 12 are read month first), the
\* bucket is that year and month when the year is the expected one and none
\* otherwise; 2023-07-15, 07/15/2023 and 15/07/2023 give 2023-07 for 2023.
C11_PatternOrder ==
    dp_pc = "done" =>
        /\ (IsYmdValue(dp_value) \/ IsXxYValue(dp_value)) =>
              dp_parsed = InOrder(dp_value)
        /\ dp_result = IF dp_parsed # NoYm /\ dp_parsed[1] = dp_year
                       THEN dp_parsed ELSE NoYm
        /\ (dp_year = 2023 /\ dp_value \in {<<2023, 7, 15>>, <<7, 15, 2023>>,
                                            <<15, 7, 2023>>})
              => dp_result = <<2023, 7>>

\* C11 witness: a value with both fields at most 12 was read month first
C11_Witness ==
    /\ dp_pc = "done" /\ dp_value = <<3, 7, 2023>> /\ dp_year = 2023
    /\ dp_result = <<2023, 3>>

\* C11 witness of a pattern passed over: the day-first value of the claim
C11_WitnessPassedOver ==
    /\ dp_pc = "done" /\ dp_value = <<15, 7, 2023>> /\ dp_year = 2023
    /\ dp_result = <<2023, 7>>

\* the attempt in progress is not the last one of the budget
NotLastAttempt == dl_pc = "loop" /\ attempt < max_retries

\* C12: a download never calls requests.get more than max_retries times and
\* never goes beyond attempt max_retries; a call that was started returns,
\* with a boolean; and an attempt that is not the last ends the call only by
\* returning True: with the size known and the file of another size after
\* it, the next attempt follows.
C12_BoundedRetry ==
    /\ [](gets <= max_retries /\ (dl_pc = "loop" => attempt <= max_retries))
    /\ [](dl_ret \in BOOLEAN)
    /\ (dl_pc = "loop" ~> dl_pc = "done")
    /\ [][NotLastAttempt =>
            /\ dl_pc' = "done" => dl_ret'
            /\ (expected_size # None /\ Size(dest') # expected_size) =>
                  (dl_pc' = "loop" /\ attempt' = attempt + 1)]_vars

\* C12 witness: every attempt of a budget of two ended in a size mismatch
\* and the call returned False
C12_Witness ==
    /\ dl_pc = "done" /\ ~dl_ret /\ max_retries = 2 /\ gets = 2
    /\ expected_size # None /\ dest # NoFile /\ Size(dest) # expected_size

\* the combined file was written
Merged == st_pc = "done" /\ combined_csv.exists

\* info row i and status row n are rows of the same station
SameStation(i, n) ==
    /\ "station_id" \in DOMAIN info_stations[i]
    /\ "station_id" \in DOMAIN status_stations[n]
    /\ info_stations[i]["station_id"] = status_stations[n]["station_id"]

\* C13: the combined output has one row per deduplicated status row, in the
\* order of the status rows, each with the values of its status row; a
\* status row of a station of the info feed gives a row with the fields of
\* both rows, a status row of no station of the info feed gives a row with
\* the status fields only (the other columns empty in the file); a station
\* of the info feed only gives no row.
C13_MergeCardinality ==
    Merged =>
        /\ Len(combined_rows) = Len(status_stations)
        /\ Len(combined_csv.rows) = Len(status_stations)
        /\ \A n \in 1..Len(status_stations) :
              LET st  == status_stations[n]
                  row == combined_rows[n]
                  of  == {i \in 1..Len(info_stations) : SameStation(i, n)}
              IN  /\ \A f \in DOMAIN st : row[f] = st[f] /\ combined_csv.rows[n][f] = st[f]
                  /\ of # {} =>
                        \E i \in of :
                           /\ DOMAIN row = (DOMAIN info_stations[i]) \cup (DOMAIN st)
                           /\ \A f \in (DOMAIN info_stations[i]) \ (DOMAIN st) :
                                 row[f] = info_stations[i][f]
                  /\ of = {} =>
                        /\ row = st
                        /\ \A f \in (DOMAIN combined_csv.rows[n]) \ (DOMAIN st) :
                              combined_csv.rows[n][f] = ""
        /\ \A i \in 1..Len(info_stations) :
              (\A n \in 1..Len(status_stations) : ~SameStation(i, n)) =>
                  \A n \in 1..Len(combined_rows) :
                      Get(combined_rows[n], "station_id")
                         # Get(info_stations[i], "station_id")
                      \/ "station_id" \notin DOMAIN info_stations[i]

\* C13 witness: stations A and B in the info feed, A and C in the status
\* feed, and the combined file has two rows
C13_Witness ==
    /\ Merged /\ Len(combined_rows) = 2
    /\ {Get(info_stations[i], "station_id") : i \in 1..Len(info_stations)} = {"A", "B"}
    /\ {Get(status_stations[n], "station_id") : n \in 1..Len(status_stations)} = {"A", "C"}

\* no two rows of the list have the key station_id with the same value
NoSharedId(rows) ==
    \A i, j \in 1..Len(rows) :
        (/\ i < j
         /\ "station_id" \in DOMAIN rows[i]
         /\ "station_id" \in DOMAIN rows[j]) =>
            rows[i]["station_id"] # rows[j]["station_id"]

\* the rows of the list that are the first to carry their station_id value
FirstOnes(rows) ==
    {i \in 1..Len(rows) :
        \A j \in 1..(i - 1) :
            ("station_id" \in DOMAIN rows[i] /\ "station_id" \in DOMAIN rows[j]) =>
                rows[i]["station_id"] # rows[j]["station_id"]}

\* C14: the deduplicated list holds, in the order of the input, the rows
\* that are the first to carry their station_id value, so no two of its rows
\* share a station_id value, and deduplicating it again changes nothing.
C14_DedupeFirstWins ==
    (st_pc = "done" /\ feeds_ok) =>
        /\ Len(info_stations) = Cardinality(FirstOnes(info_feed))
        /\ NoSharedId(info_stations)
        /\ NoSharedId(status_stations)
        /\ dedupe_by_station_id(info_stations) = info_stations

\* C15: in the combined row of a station of both feeds every field of the
\* info row has the value of the info row.
C15_InfoFieldsKept ==
    Merged =>
        \A n \in 1..Len(status_stations) : \A i \in 1..Len(info_stations) :
            SameStation(i, n) =>
                \A f \in DOMAIN info_stations[i] :
                    combined_rows[n][f] = info_stations[i][f]

\* the year directories other than that of year y are the same before and
\* after the step
OtherYearsKept(y) ==
    \A z \in (DOMAIN interim) \cup (DOMAIN interim') :
        z # y => /\ z \in DOMAIN interim /\ z \in DOMAIN interim'
                 /\ interim'[z] = interim[z]

\* C16: the archives are taken one at a time in the order of the sorted
\* list, which is the order of their years; whatever an iteration does
\* (skip, failed repair, exception while extracting or splitting) the loop
\* goes on to the next archive and can always take it, until the list is
\* exhausted, and only the
\* directory of the year of the current archive and the current archive
\* file can change; an archive of a year outside 2017..2024 changes nothing.
C16_FailureIsolation ==
    /\ [][uz_pc = "loop" =>
            /\ uz_i' = uz_i + 1
            /\ uz_pc' = (IF uz_i = Len(zip_files) THEN "done" ELSE "loop")
            /\ last'.i = uz_i /\ last'.year = Cur.year
            /\ OtherYearsKept(Cur.year)
            /\ \A k \in 1..Len(raw) : k # uz_i => raw'[k] = raw[k]
            /\ ~InRange(Cur.year) => (interim' = interim /\ raw' = raw)]_vars
    /\ [](last.status # "none" =>
            \A k \in 1..(last.i - 1) : zip_files[k].year < last.year)
    /\ [](uz_pc = "loop" => ENABLED NextUz)

\* C16 witness: the extraction of the first archive broke in the middle of
\* an entry, and the second archive has been extracted
C16_Witness ==
    /\ uz_pc = "done" /\ last.i = 2 /\ last.status = "extracted"
    /\ InRange(zip_files[1].year)
    /\ \E n \in DOMAIN DirFiles(interim, zip_files[1].year) :
          DirFiles(interim, zip_files[1].year)[n] = BrokenFile

\* C17: when a quarterly file has been deleted, every bucket is stored in
\* its monthly file: the file exists and holds the rows of the bucket.
C17_NoLossOnDeletion ==
    (sp_pc = "done" /\ SomeQuarterlyDeleted) =>
        \A ym \in DOMAIN monthly_buckets :
            /\ OutName(ym) \in DOMAIN year_dir
            /\ Len(year_dir[OutName(ym)].rows) = Len(monthly_buckets[ym])

=============================================================================
